---- MODULE Spec2Model ----
(***************************************************************************)
(* Model of src/main.py: the interactive loop of main() and one            *)
(* YouTubeDownloader whose download_and_convert runs step by step.         *)
(* Strings are sequences of one-character strings (file names, titles) or  *)
(* of tokens (URLs); None is the empty set and a present value x is {x}.   *)
(***************************************************************************)
EXTENDS Integers, Sequences, FiniteSets, TLC

VARIABLES
  pc,            \* position of the single thread of control
  calls,         \* number of download_and_convert invocations started
  url,           \* main: url (stripped input), argument of the call
  quality,       \* main: quality, argument of the call
  default_title, \* download_and_convert: default_title
  attempts,      \* _initialize_youtube: log of the attempts made so far
  yt,            \* download_and_convert: yt (None or a handle)
  video_title,   \* download_and_convert: video_title
  video,         \* download_and_convert: video (None or a stream)
  video_path,    \* download_and_convert: video_path (None or a temp name)
  audio_path,    \* download_and_convert: audio_path (None or a file name)
  err,           \* class of the exception in flight or handled, "none"
  failedAt,      \* the step that raised it, "none"
  msg,           \* terminal message printed by this call
  result,        \* value returned by the call (None or a file name)
  propagating,   \* TRUE when an exception leaves download_and_convert
  outFiles,      \* output directory: file name -> content
  tempDir,       \* "absent", or who created temp/: "downloader", "pytube"
  tempFiles,     \* names of the files inside temp/
  resolveCalls,  \* YouTube(url) calls made by this invocation
  downloadCalls, \* video.download calls made by this invocation
  written,       \* temp files written by this invocation's download
  transcoded,    \* TRUE once write_audiofile returned in this invocation
  cleanupFailed, \* TRUE when the finally block swallowed an exception
  out0,          \* outFiles when this invocation started
  temp0          \* tempFiles when this invocation started

vars == <<pc, calls, url, quality, default_title, attempts, yt, video_title,
          video, video_path, audio_path, err, failedAt, msg, result, propagating,
          outFiles, tempDir, tempFiles, resolveCalls, downloadCalls, written,
          transcoded, cleanupFailed, out0, temp0>>

\* ---------------------------------------------------------------- bounds
MaxCalls == 2
MaxStreams == 3

\* ------------------------------------------------------------ primitives
None == {}
Some(x) == {x}
The(s) == CHOOSE x \in s : TRUE

Range(s) == {s[i] : i \in 1..Len(s)}

\* str.split(sep) on a token sequence whose separator is one token
RECURSIVE Split(_, _)
Split(s, sep) ==
  IF \A i \in 1..Len(s) : s[i] # sep
    THEN <<s>>
    ELSE LET i == CHOOSE j \in 1..Len(s) :
                    s[j] = sep /\ \A k \in 1..(j - 1) : s[k] # sep
         IN <<SubSeq(s, 1, i - 1)>> \o Split(SubSeq(s, i + 1, Len(s)), sep)

\* str.strip(): drop leading and trailing blanks
RECURSIVE Strip(_)
Strip(s) ==
  IF s = <<>> THEN s
  ELSE IF Head(s) = " " THEN Strip(Tail(s))
  ELSE IF s[Len(s)] = " " THEN Strip(SubSeq(s, 1, Len(s) - 1))
  ELSE s

\* str.lower() on the tokens the inputs use
LowerTok(t) ==
  CASE t = "Q" -> "q"
    [] t = "LOWEST" -> "lowest"
    [] t = "HIGHEST" -> "highest"
    [] OTHER -> t
Lower(s) == [i \in 1..Len(s) |-> LowerTok(s[i])]

\* str(counter)
Digit(d) == <<"0", "1", "2", "3", "4", "5", "6", "7", "8", "9">>[d + 1]
RECURSIVE Str(_)
Str(n) == IF n < 10 THEN <<Digit(n)>> ELSE Str(n \div 10) \o <<Digit(n % 10)>>

\* ---------------------------------------------------------------- inputs
WatchUrl == <<"https://", "youtube.com", "/", "watch?v=", "id1">>
WatchUrlAmp == <<"https://", "youtube.com", "/", "watch?v=", "id1", "&", "t=1">>
ShortsUrl == <<"https://", "youtube.com", "/", "shorts/", "id1">>
OtherHostUrl == <<"https://", "example.com", "/", "watch?v=", "id1">>
NoSchemeUrl == <<"youtube.com", "/", "watch?v=", "id1">>
NotAUrl == <<"not", " ", "a", " ", "url">>

UrlInputs == {WatchUrl, <<" ">> \o WatchUrlAmp, ShortsUrl, OtherHostUrl,
              NoSchemeUrl, NotAUrl}
QuitInputs == {<<"q">>, <<"Q">>, <<" ", "q", " ">>}
QualityInputs == {<<"highest">>, <<"lowest">>, <<"LOWEST", " ">>, <<"best">>, <<>>}

Titles == {<<"a">>, <<"a", "?">>, <<"?">>, <<"a", "_", "1">>}

P(r) == [resolution |-> r, is_progressive |-> TRUE, extension |-> "mp4"]
StreamUniverse ==
  [resolution : {360, 720, 1080}, is_progressive : BOOLEAN,
   extension : {"mp4", "webm"}]
AllProgressive == {P(360), P(720), P(1080)}
Mixed == {P(360), P(720),
          [resolution |-> 1080, is_progressive |-> FALSE, extension |-> "mp4"],
          [resolution |-> 1080, is_progressive |-> TRUE, extension |-> "webm"]}
NoCandidate == {[resolution |-> 1080, is_progressive |-> FALSE, extension |-> "mp4"],
                [resolution |-> 720, is_progressive |-> TRUE, extension |-> "webm"]}
\* what YouTube(url) can resolve to
Catalogue == [title : Titles, streams : {Mixed, NoCandidate}]

Mp3 == <<".", "m", "p", "3">>
InitDirs == {{}, {<<"a">> \o Mp3}, {<<"a">> \o Mp3, <<"a", "_", "2">> \o Mp3}}

\* ------------------------------------------------- pure parts of the code
\* validators.url(url): a scheme, then a host, and no blank anywhere
ValidSyntax(u) ==
  /\ Len(u) >= 2
  /\ u[1] \in {"https://", "http://"}
  /\ " " \notin Range(u)

\* 'youtube.com' in url
HasDomain(u) == "youtube.com" \in Range(u)

PassesWhenEitherHolds(u) == ~(~ValidSyntax(u) /\ ~HasDomain(u))
\* line 83: the request passes when the condition of the raise is false
ValidYouTubeURL(u) == ~(~ValidSyntax(u) \/ ~HasDomain(u))

\* line 87 without its split('&')
VideoIdKeepsQuery(u) ==
  LET parts == Split(u, "watch?v=")
  IN IF Len(parts) < 2 THEN None ELSE Some(parts[2])
\* line 87 taking piece [0] of the first split
VideoIdFirstPiece(u) == Some(Split(Split(u, "watch?v=")[1], "&")[1])
\* line 87: url.split('watch?v=')[1].split('&')[0]; {} stands for IndexError
VideoId(u) ==
  LET parts == Split(u, "watch?v=")
  IN IF Len(parts) < 2 THEN None ELSE Some(Split(parts[2], "&")[1])

\* line 88
DefaultTitle(id) == <<"youtube_video_">> \o id

\* the class of line 34 with its backslash taken for an escape of '|'
IllegalCharsNoBackslash == {"<", ">", ":", "\"", "/", "|", "?", "*"}
\* line 34: re.sub(r'[<>:"/\\|?*]', '', title)
IllegalChars == {"<", ">", ":", "\"", "/", "\\", "|", "?", "*"}
IsLegal(c) == c \notin IllegalChars
_sanitize_filename(title) == SelectSeq(title, IsLegal)

\* pathlib: index of the last '.', 0 when there is none
RFind(name, c) ==
  IF c \notin Range(name) THEN 0
  ELSE CHOOSE i \in 1..Len(name) :
         name[i] = c /\ \A j \in (i + 1)..Len(name) : name[j] # c
\* pathlib: a leading or a trailing dot starts no suffix
HasSuffix(name) == LET i == RFind(name, ".") IN 1 < i /\ i < Len(name)
Suffix(name) ==
  IF HasSuffix(name) THEN SubSeq(name, RFind(name, "."), Len(name)) ELSE <<>>
Stem(name) ==
  IF HasSuffix(name) THEN SubSeq(name, 1, RFind(name, ".") - 1) ELSE name

\* line 46: f"{base}_{counter}{extension}"
Numbered(base, counter, extension) == base \o <<"_">> \o Str(counter) \o extension

FirstCounterPlusOne == 1 + 1
\* line 43
FirstCounter == 1

\* lines 45-49: the probing loop, from a given counter
RECURSIVE Probe(_, _, _, _)
Probe(base, extension, counter, existing) ==
  LET new_filepath == Numbered(base, counter, extension)
  IN IF new_filepath \notin existing
       THEN new_filepath
       ELSE Probe(base, extension, counter + 1, existing)

NoProbe(filepath, existing) == filepath
\* lines 36-49; existing is the set of names present in the output directory
_get_unique_filename(filepath, existing) ==
  IF filepath \notin existing
    THEN filepath
    ELSE Probe(Stem(filepath), Suffix(filepath), FirstCounter, existing)

FilterAll(streams) == streams
\* line 109: yt.streams.filter(progressive=True, file_extension='mp4')
stream_filter(streams) ==
  {s \in streams : s.is_progressive /\ s.extension = "mp4"}

\* order_by('resolution').first() and order_by('resolution').desc().first()
First(ss) ==
  IF ss = {} THEN None
  ELSE Some(CHOOSE s \in ss : \A t \in ss : s.resolution <= t.resolution)
DescFirst(ss) ==
  IF ss = {} THEN None
  ELSE Some(CHOOSE s \in ss : \A t \in ss : s.resolution >= t.resolution)

SelectUnfiltered(streams, q) ==
  IF q = "lowest" THEN First(streams) ELSE DescFirst(streams)
\* lines 109-111
SelectStream(streams, q) ==
  IF q = "lowest" THEN First(stream_filter(streams))
  ELSE DescFirst(stream_filter(streams))

\* lines 155-156 with the lower().strip() of line 154
Quality(raw) ==
  LET q == Strip(Lower(raw))
  IN IF q \notin {<<"highest">>, <<"lowest">>} THEN "highest" ELSE q[1]

max_retries_plus_one == 3 + 1
\* line 51
max_retries == 3

\* line 66: (2 ** attempt) * 3, attempt counted from 0
wait_time(attempt) == (2 ^ attempt) * 3

\* Python's exception classes: the builtin hierarchy the raised errors sit in
Parent(cls) ==
  CASE cls \in {"ValueError", "IndexError", "OSError", "PytubeError",
                "AttributeError"} -> "Exception"
    [] cls = "Exception" -> "BaseException"
    [] OTHER -> "BaseException"
RECURSIVE IsSubclass(_, _)
IsSubclass(cls, base) ==
  \/ cls = base
  \/ cls # "BaseException" /\ IsSubclass(Parent(cls), base)

CatchesOnlyValueError(cls) == IsSubclass(cls, "ValueError")
\* line 133: except Exception
Caught(cls) == IsSubclass(cls, "Exception")

\* ---------------------------------------------------------- the program
\* content of a file of the output directory: who wrote it, and whether whole
Content(n, whole) == [call |-> n, whole |-> whole]
Exists == DOMAIN outFiles
WriteFile(name, c) ==
  [f \in DOMAIN outFiles \cup {name} |-> IF f = name THEN c ELSE outFiles[f]]

callVars == <<default_title, attempts, yt, video_title, video, video_path,
              audio_path, err, failedAt, msg, result, propagating, resolveCalls,
              downloadCalls, written, transcoded, cleanupFailed>>

\* the locals of a call before its first statement
FreshCall ==
  /\ default_title = <<>>
  /\ attempts = <<>>
  /\ yt = None
  /\ video_title = <<>>
  /\ video = None
  /\ video_path = None
  /\ audio_path = None
  /\ err = "none"
  /\ failedAt = "none"
  /\ msg = "none"
  /\ result = None
  /\ propagating = FALSE
  /\ resolveCalls = 0
  /\ downloadCalls = 0
  /\ written = {}
  /\ transcoded = FALSE
  /\ cleanupFailed = FALSE

\* line 72: the locals of a call that has not run a statement
EnterCall ==
  /\ default_title' = <<>>
  /\ attempts' = <<>>
  /\ yt' = None
  /\ video_title' = <<>>
  /\ video' = None
  /\ video_path' = None
  /\ audio_path' = None
  /\ err' = "none"
  /\ failedAt' = "none"
  /\ msg' = "none"
  /\ result' = None
  /\ propagating' = FALSE
  /\ resolveCalls' = 0
  /\ downloadCalls' = 0
  /\ written' = {}
  /\ transcoded' = FALSE
  /\ cleanupFailed' = FALSE

\* lines 147 and 20-29: the downloader is constructed, both directories exist
Init ==
  /\ pc = "prompt"
  /\ calls = 0
  /\ url = <<>>
  /\ quality = "highest"
  /\ FreshCall
  /\ \E d \in InitDirs : outFiles = [f \in d |-> Content(0, TRUE)]
  /\ tempDir = "downloader"
  /\ tempFiles = {}
  /\ out0 = outFiles
  /\ temp0 = {}

\* lines 150-152: the user enters the quit sentinel
PromptQuit ==
  /\ pc = "prompt"
  /\ \E raw \in QuitInputs :
       /\ Lower(Strip(raw)) = <<"q">>
       /\ url' = Strip(raw)
  /\ pc' = "quit"
  /\ UNCHANGED <<calls, quality, callVars, outFiles, tempDir, tempFiles, out0, temp0>>

\* lines 150-158: the user enters a url and a quality, the call starts
PromptCall ==
  /\ pc = "prompt"
  /\ calls < MaxCalls
  /\ \E raw \in UrlInputs, qraw \in QualityInputs :
       /\ Lower(Strip(raw)) # <<"q">>
       /\ url' = Strip(raw)
       /\ quality' = Quality(qraw)
  /\ pc' = "validate"
  /\ calls' = calls + 1
  /\ EnterCall
  /\ out0' = outFiles
  /\ temp0' = tempFiles
  /\ UNCHANGED <<outFiles, tempDir, tempFiles>>

\* an exception of class cls, raised by the given step, leaves the try body
Raise(cls, step) ==
  /\ err' = cls
  /\ failedAt' = step
  /\ pc' = "except"
NoRaise == UNCHANGED <<err, failedAt>>

\* lines 83-84
Validate ==
  /\ pc = "validate"
  /\ IF ValidYouTubeURL(url)
       THEN pc' = "fallback" /\ NoRaise
       ELSE Raise("ValueError", "validate")
  /\ UNCHANGED <<calls, url, quality, default_title, attempts, yt, video_title,
                 video, video_path, audio_path, msg, result, propagating,
                 outFiles, tempDir, tempFiles, resolveCalls, downloadCalls,
                 written, transcoded, cleanupFailed, out0, temp0>>

\* lines 87-88
Fallback ==
  /\ pc = "fallback"
  /\ IF VideoId(url) = None
       THEN Raise("IndexError", "fallback") /\ default_title' = default_title
       ELSE /\ default_title' = DefaultTitle(The(VideoId(url)))
            /\ pc' = "resolve"
            /\ NoRaise
  /\ UNCHANGED <<calls, url, quality, attempts, yt, video_title,
                 video, video_path, audio_path, msg, result, propagating,
                 outFiles, tempDir, tempFiles, resolveCalls, downloadCalls,
                 written, transcoded, cleanupFailed, out0, temp0>>

attempt == Len(attempts)

\* lines 65-68: the wait after a failed attempt, 0 when there is none
Backoff(a) == IF a < max_retries - 1 THEN wait_time(a) ELSE 0

Attempt(outcome, throttle, backoff) ==
  [outcome |-> outcome, throttle |-> throttle, backoff |-> backoff]

resolveFrame == <<calls, url, quality, default_title, video_title,
                  video, video_path, audio_path, msg, result, propagating,
                  outFiles, tempDir, tempFiles, downloadCalls,
                  written, transcoded, cleanupFailed, out0, temp0>>

\* lines 55, 62-68: YouTube(url) raises
AttemptCtorRaises ==
  /\ pc = "resolve"
  /\ attempt < max_retries
  /\ resolveCalls' = resolveCalls + 1
  /\ attempts' = Append(attempts, Attempt("raised", 0, Backoff(attempt)))
  /\ UNCHANGED <<pc, err, failedAt, yt>>
  /\ UNCHANGED resolveFrame

\* lines 55-59, 62-68: the handle is built, the pause is taken, yt.title raises
AttemptTitleRaises ==
  /\ pc = "resolve"
  /\ attempt < max_retries
  /\ resolveCalls' = resolveCalls + 1
  /\ attempts' = Append(attempts, Attempt("raised", 3, Backoff(attempt)))
  /\ UNCHANGED <<pc, err, failedAt, yt>>
  /\ UNCHANGED resolveFrame

\* lines 55-59: yt.title is empty, the loop goes on without reaching line 62
AttemptEmptyTitle ==
  /\ pc = "resolve"
  /\ attempt < max_retries
  /\ resolveCalls' = resolveCalls + 1
  /\ attempts' = Append(attempts, Attempt("empty", 3, 0))
  /\ UNCHANGED <<pc, err, failedAt, yt>>
  /\ UNCHANGED resolveFrame

\* lines 55-60: the handle has a title and is returned
AttemptSucceeds ==
  /\ pc = "resolve"
  /\ attempt < max_retries
  /\ resolveCalls' = resolveCalls + 1
  /\ attempts' = Append(attempts, Attempt("ok", 3, 0))
  /\ \E h \in Catalogue : yt' = Some(h)
  /\ pc' = "resolved"
  /\ NoRaise
  /\ UNCHANGED resolveFrame

\* a loop that starts over when its attempts are used up
ResolveRestarts ==
  /\ pc = "resolve"
  /\ attempt >= max_retries
  /\ attempts' = <<>>
  /\ resolveCalls' = 0
  /\ UNCHANGED <<pc, yt>>
  /\ NoRaise
  /\ UNCHANGED resolveFrame

\* lines 53 and 70: the loop is over, None is returned
ResolveExhausted ==
  /\ pc = "resolve"
  /\ attempt >= max_retries
  /\ yt' = None
  /\ pc' = "resolved"
  /\ NoRaise
  /\ UNCHANGED <<attempts, resolveCalls>>
  /\ UNCHANGED resolveFrame

\* lines 91-93: _initialize_youtube has returned and its locals are gone;
\* a None is refused
Initialized ==
  /\ pc = "resolved"
  /\ attempts' = <<>>
  /\ IF yt = None
       THEN Raise("Exception", "resolve")
       ELSE pc' = "select" /\ NoRaise
  /\ UNCHANGED <<yt, resolveCalls>>
  /\ UNCHANGED resolveFrame

\* line 105: yt.title or default_title
TitleOr(title, default) == IF title = <<>> THEN default ELSE title

\* lines 101-114: the title is sanitized and the stream chosen
Select ==
  /\ pc = "select"
  /\ video_title' = _sanitize_filename(TitleOr(The(yt).title, default_title))
  /\ video' = SelectStream(The(yt).streams, quality)
  /\ IF video' = None
       THEN Raise("Exception", "select")
       ELSE pc' = "download" /\ NoRaise
  /\ UNCHANGED <<calls, url, quality, default_title, attempts, yt, video_path,
                 audio_path, msg, result, propagating, outFiles, tempDir,
                 tempFiles, resolveCalls, downloadCalls, written, transcoded,
                 cleanupFailed, out0, temp0>>

\* the file video.download writes: named after the title of the video
TempName == The(yt).title
\* pytube's download makes the target directory when it is missing
MadeByDownload == IF tempDir = "absent" THEN "pytube" ELSE tempDir

downloadFrame == <<calls, url, quality, default_title, attempts, yt,
                   video_title, video, audio_path, msg, result, propagating,
                   outFiles, resolveCalls, transcoded, cleanupFailed, out0,
                   temp0>>

\* lines 117-119: the transfer completes
DownloadSucceeds ==
  /\ pc = "download"
  /\ downloadCalls' = downloadCalls + 1
  /\ tempDir' = MadeByDownload
  /\ tempFiles' = tempFiles \cup {TempName}
  /\ written' = {TempName}
  /\ video_path' = Some(TempName)
  /\ pc' = "outpath"
  /\ NoRaise
  /\ UNCHANGED downloadFrame

\* lines 117-118: the transfer raises, a partly written file may stay behind
DownloadFails ==
  /\ pc = "download"
  /\ downloadCalls' = downloadCalls + 1
  /\ tempDir' = MadeByDownload
  /\ \E partial \in BOOLEAN :
       IF partial
         THEN tempFiles' = tempFiles \cup {TempName} /\ written' = {TempName}
         ELSE UNCHANGED <<tempFiles, written>>
  /\ Raise("PytubeError", "download")
  /\ UNCHANGED video_path
  /\ UNCHANGED downloadFrame

\* line 123
OutPath ==
  /\ pc = "outpath"
  /\ audio_path' = Some(_get_unique_filename(video_title \o Mp3, Exists))
  /\ pc' = "transcode"
  /\ UNCHANGED <<calls, url, quality, default_title, attempts, yt, video_title,
                 video, video_path, err, failedAt, msg, result, propagating,
                 outFiles, tempDir, tempFiles, resolveCalls, downloadCalls,
                 written, transcoded, cleanupFailed, out0, temp0>>

transcodeFrame == <<calls, url, quality, default_title, attempts, yt,
                    video_title, video, video_path, audio_path, msg, result,
                    propagating, tempDir, tempFiles, resolveCalls,
                    downloadCalls, written, cleanupFailed, out0, temp0>>

\* lines 125-126: the audio track is written to audio_path
TranscodeSucceeds ==
  /\ pc = "transcode"
  /\ outFiles' = WriteFile(The(audio_path), Content(calls, TRUE))
  /\ transcoded' = TRUE
  /\ pc' = "unlink"
  /\ NoRaise
  /\ UNCHANGED transcodeFrame

\* lines 125-126: opening or writing raises, a partly written file may stay
TranscodeFails ==
  /\ pc = "transcode"
  /\ \E partial \in BOOLEAN :
       outFiles' = IF partial
                     THEN WriteFile(The(audio_path), Content(calls, FALSE))
                     ELSE outFiles
  /\ Raise("OSError", "transcode")
  /\ UNCHANGED transcoded
  /\ UNCHANGED transcodeFrame

unlinkFrame == <<calls, url, quality, default_title, attempts, yt,
                 video_title, video, video_path, audio_path, propagating,
                 outFiles, tempDir, resolveCalls, downloadCalls, written,
                 transcoded, cleanupFailed, out0, temp0>>

\* lines 129-131: the temporary file is deleted, success is printed
UnlinkSucceeds ==
  /\ pc = "unlink"
  /\ tempFiles' = tempFiles \ video_path
  /\ msg' = "success"
  /\ result' = audio_path
  /\ pc' = "finally"
  /\ NoRaise
  /\ UNCHANGED unlinkFrame

\* line 129: Path(video_path).unlink() raises inside the try body
UnlinkFails ==
  /\ pc = "unlink"
  /\ Raise("OSError", "unlink")
  /\ UNCHANGED <<tempFiles, msg, result>>
  /\ UNCHANGED unlinkFrame

\* lines 133-135: a caught exception is printed and None is returned
Except ==
  /\ pc = "except"
  /\ IF Caught(err)
       THEN msg' = "error" /\ result' = None /\ UNCHANGED propagating
       ELSE propagating' = TRUE /\ UNCHANGED <<msg, result>>
  /\ pc' = "finally"
  /\ UNCHANGED <<calls, url, quality, default_title, attempts, yt, video_title,
                 video, video_path, audio_path, err, failedAt, outFiles,
                 tempDir, tempFiles, resolveCalls, downloadCalls, written,
                 transcoded, cleanupFailed, out0, temp0>>

finallyFrame == <<calls, url, quality, default_title, attempts, yt,
                  video_title, video, video_path, audio_path, err, failedAt,
                  msg, result, propagating, outFiles, resolveCalls,
                  downloadCalls, written, transcoded, out0, temp0>>

\* where control goes when the finally block is left
AfterFinally == IF propagating THEN "crashed" ELSE "returned"

FinallySkipsCleanup ==
  /\ pc = "finally"
  /\ pc' = AfterFinally
  /\ UNCHANGED <<tempDir, tempFiles, cleanupFailed>>
  /\ UNCHANGED finallyFrame

\* the finally block without the rmdir of line 142
FinallyKeepsDirectory ==
  /\ pc = "finally"
  /\ IF tempDir = "absent"
       THEN UNCHANGED <<tempFiles, cleanupFailed>>
       ELSE \E deleted \in SUBSET tempFiles :
              /\ tempFiles' = tempFiles \ deleted
              /\ cleanupFailed' = (deleted # tempFiles)
  /\ UNCHANGED tempDir
  /\ pc' = AfterFinally
  /\ UNCHANGED finallyFrame

\* lines 136-144: every file of temp/ is deleted, then temp/ itself; the
\* first deletion that raises ends the block and is swallowed
Finally ==
  /\ pc = "finally"
  /\ IF tempDir = "absent"
       THEN UNCHANGED <<tempDir, tempFiles, cleanupFailed>>
       ELSE \E deleted \in SUBSET tempFiles, rmdirOk \in BOOLEAN :
              /\ tempFiles' = tempFiles \ deleted
              /\ IF deleted = tempFiles /\ rmdirOk
                   THEN tempDir' = "absent" /\ cleanupFailed' = FALSE
                   ELSE tempDir' = tempDir /\ cleanupFailed' = TRUE
  /\ pc' = AfterFinally
  /\ UNCHANGED finallyFrame

\* line 158 back to line 149: the call has returned, its result is dropped
\* with its locals, and the loop goes on
Return ==
  /\ pc = "returned"
  /\ pc' = "prompt"
  /\ EnterCall
  /\ out0' = outFiles
  /\ temp0' = tempFiles
  /\ UNCHANGED <<calls, url, quality, outFiles, tempDir, tempFiles>>

Next ==
  \/ PromptQuit
  \/ PromptCall
  \/ Validate
  \/ Fallback
  \/ AttemptCtorRaises
  \/ AttemptTitleRaises
  \/ AttemptEmptyTitle
  \/ AttemptSucceeds
  \/ ResolveExhausted
  \/ Initialized
  \/ Select
  \/ DownloadSucceeds
  \/ DownloadFails
  \/ OutPath
  \/ TranscodeSucceeds
  \/ TranscodeFails
  \/ UnlinkSucceeds
  \/ UnlinkFails
  \/ Except
  \/ Finally
  \/ Return

Spec == Init /\ [][Next]_vars

TypeOK ==
  /\ pc \in {"prompt", "validate", "fallback", "resolve", "resolved", "select", "download",
             "outpath", "transcode", "unlink", "except", "finally", "returned",
             "crashed", "quit"}
  /\ calls \in 0..MaxCalls
  /\ attempt <= max_retries

\* ------------------------------------------- stream selection on its own
\* every handle of at most MaxStreams streams, at the point of line 105
BoundedStreamSets == {ss \in SUBSET StreamUniverse : Cardinality(ss) <= MaxStreams}

InitSelect ==
  /\ pc = "select"
  /\ calls = 1
  /\ url = WatchUrl
  /\ quality \in {"highest", "lowest"}
  /\ default_title = DefaultTitle(The(VideoId(WatchUrl)))
  /\ attempts = <<>>
  /\ \E ss \in BoundedStreamSets : yt = Some([title |-> <<"a">>, streams |-> ss])
  /\ video_title = <<>>
  /\ video = None
  /\ video_path = None
  /\ audio_path = None
  /\ err = "none"
  /\ failedAt = "none"
  /\ msg = "none"
  /\ result = None
  /\ propagating = FALSE
  /\ outFiles = << >>
  /\ tempDir = "downloader"
  /\ tempFiles = {}
  /\ resolveCalls = 1
  /\ downloadCalls = 0
  /\ written = {}
  /\ transcoded = FALSE
  /\ cleanupFailed = FALSE
  /\ out0 = << >>
  /\ temp0 = {}

NextSelect == Select

SpecSelect == InitSelect /\ [][NextSelect]_vars

\* ------------------------------------------------------------- the claims
InCall == pc \notin {"prompt", "quit", "crashed"}
Returned == pc = "returned"

C2_CleanupNeverMasksResult ==
  Returned =>
    /\ transcoded => result = audio_path /\ result # None
    /\ failedAt \in {"validate", "fallback", "resolve", "select", "download",
                     "transcode"} => result = None

\* C3: every error of the steps of one call is caught in that call and ends
\* as a None result, nothing propagates to main, the loop goes from a
\* returned call to the next prompt, and it ends only on the sentinel q.
C3_ErrorsStayInsideTheCall ==
  /\ [](/\ pc # "crashed"
        /\ ~propagating
        /\ (pc \in {"finally", "returned"} /\ err # "none") =>
              (result = None /\ msg = "error")
        /\ pc = "quit" => Lower(url) = <<"q">>)
  /\ [][pc = "returned" => pc' = "prompt"]_vars

C3_Witness ==
  /\ Returned
  /\ err = "IndexError"
  /\ result = None

\* C4: resolution makes at most 3 attempts; when 3 attempts gave no titled
\* handle, _initialize_youtube returns None and the call fails without a
\* stream selection, without a download and without a new output file.
C4_RetriesExhausted ==
  /\ resolveCalls <= 3
  /\ Len(attempts) <= 3
  /\ (pc = "resolved" /\ \A i \in 1..Len(attempts) : attempts[i].outcome # "ok")
        => (Len(attempts) = 3 /\ yt = None)
  /\ failedAt = "resolve" =>
        /\ resolveCalls = 3
        /\ video = None
        /\ downloadCalls = 0
        /\ written = {}
        /\ outFiles = out0
        /\ result = None

C4_Witness ==
  /\ Returned
  /\ failedAt = "resolve"
  /\ resolveCalls = 3
  /\ msg = "error"

\* C5: when attempts 1 and 2 fail and attempt 3 succeeds, the wait after
\* attempt 1 is 3 seconds, the wait after attempt 2 is 6 seconds, and the
\* handle of attempt 3 is the one returned.
C5_BackoffThenThirdAttempt ==
  (/\ pc = "resolved"
   /\ Len(attempts) = 3
   /\ attempts[1].outcome # "ok"
   /\ attempts[2].outcome # "ok"
   /\ attempts[3].outcome = "ok")
    => (attempts[1].backoff = 3 /\ attempts[2].backoff = 6 /\ yt # None)

\* C6: a url that fails the syntax check or lacks the hosting domain makes
\* the call fail with the ValueError of line 84, with no YouTube(url) call
\* and no download call.
C6_InvalidUrlNoRemoteCall ==
  (InCall /\ pc # "validate" /\ (~ValidSyntax(url) \/ ~HasDomain(url))) =>
    /\ resolveCalls = 0
    /\ downloadCalls = 0
    /\ failedAt = "validate"
    /\ err = "ValueError"
    /\ result = None

C6_Witness ==
  /\ Returned
  /\ url = OtherHostUrl
  /\ failedAt = "validate"
  /\ msg = "error"

\* the streams of a handle that are progressive and of extension mp4
Candidates(h) ==
  {s \in h.streams : s.is_progressive = TRUE /\ s.extension = "mp4"}

\* C7: when the handle has no progressive mp4 stream the call fails at the
\* selection, download is never called, and neither a temporary file nor an
\* output file is created.
C7_NoStreamNoDownload ==
  (yt # None /\ pc \notin {"resolved", "select"} /\ Candidates(The(yt)) = {}) =>
    /\ failedAt = "select"
    /\ video = None
    /\ downloadCalls = 0
    /\ written = {}
    /\ tempFiles \subseteq temp0
    /\ outFiles = out0
    /\ result = None

C7_Witness ==
  /\ Returned
  /\ yt # None
  /\ The(yt).streams = NoCandidate
  /\ failedAt = "select"

\* C8: the selected stream is a progressive mp4 stream of the handle, of
\* maximal resolution among them for highest and of minimal resolution for
\* lowest; without such a stream nothing is selected.
C8_SelectsExtremeCandidate ==
  (yt # None /\ pc \in {"download", "except"} /\ failedAt \in {"none", "select"}) =>
    LET cands == Candidates(The(yt))
    IN /\ cands = {} => video = None
       /\ cands # {} =>
            /\ video # None
            /\ The(video) \in cands
            /\ quality = "highest" =>
                 \A t \in cands : t.resolution <= The(video).resolution
            /\ quality = "lowest" =>
                 \A t \in cands : t.resolution >= The(video).resolution

C8_Witness ==
  /\ pc = "download"
  /\ The(yt).streams = AllProgressive
  /\ quality = "lowest"
  /\ video = Some(P(360))

\* C9: _get_unique_filename returns the requested path when it is free, and
\* otherwise the path numbered with the smallest k >= 1 that is not on disk.
C9_SmallestFreeSuffix ==
  pc = "transcode" =>
    LET req == video_title \o Mp3
        got == The(audio_path)
        numbered(k) == Numbered(Stem(req), k, Suffix(req))
    IN /\ req \notin Exists => got = req
       /\ req \in Exists =>
            \E k \in 1..(Cardinality(Exists) + 1) :
              /\ got = numbered(k)
              /\ got \notin Exists
              /\ \A j \in 1..(k - 1) : numbered(j) \in Exists

C9_Witness ==
  /\ pc = "transcode"
  /\ video_title = <<"a">>
  /\ (<<"a", "_", "1">> \o Mp3) \in Exists
  /\ outFiles[<<"a", "_", "1">> \o Mp3].call >= 1
  /\ audio_path = Some(<<"a", "_", "2">> \o Mp3)

\* C10: the path an invocation is about to write does not exist in the
\* output directory, and no step removes or rewrites an existing file.
C10_NoSilentOverwrite ==
  /\ [](pc = "transcode" => The(audio_path) \notin Exists)
  /\ [][\A f \in DOMAIN outFiles :
          f \in DOMAIN outFiles' /\ outFiles'[f] = outFiles[f]]_vars

C10_Witness ==
  /\ (<<"a">> \o Mp3) \in Exists
  /\ (<<"a", "_", "1">> \o Mp3) \in Exists
  /\ outFiles[<<"a">> \o Mp3] = Content(1, TRUE)
  /\ outFiles[<<"a", "_", "1">> \o Mp3] = Content(2, TRUE)

\* --------------------------------------------- sanitization on its own
MaxTitleLen == 3

\* the nine characters of the pattern, and characters it leaves alone: a
\* letter, a blank, a non-ASCII letter, a dot and an underscore
TitleChars == {"<", ">", ":", "\"", "/", "\\", "|", "?", "*",
               "a", " ", "é", ".", "_"}
RECURSIVE SeqsUpTo(_, _)
SeqsUpTo(S, n) ==
  IF n = 0 THEN {<<>>}
  ELSE LET shorter == SeqsUpTo(S, n - 1)
       IN shorter \cup {Append(t, c) : t \in shorter, c \in S}
\* yt.title is not empty once line 60 has returned the handle
BoundedTitles == SeqsUpTo(TitleChars, MaxTitleLen) \ {<<>>}

\* the first call at line 105, holding the handle h, with quality q
AtSelect(h, q) ==
  /\ pc = "select"
  /\ calls = 1
  /\ url = WatchUrl
  /\ quality = q
  /\ default_title = DefaultTitle(The(VideoId(WatchUrl)))
  /\ attempts = <<>>
  /\ yt = Some(h)
  /\ video_title = <<>>
  /\ video = None
  /\ video_path = None
  /\ audio_path = None
  /\ err = "none"
  /\ failedAt = "none"
  /\ msg = "none"
  /\ result = None
  /\ propagating = FALSE
  /\ outFiles = << >>
  /\ tempDir = "downloader"
  /\ tempFiles = {}
  /\ resolveCalls = 1
  /\ downloadCalls = 0
  /\ written = {}
  /\ transcoded = FALSE
  /\ cleanupFailed = FALSE
  /\ out0 = << >>
  /\ temp0 = {}

InitSanitize ==
  \E t \in BoundedTitles : AtSelect([title |-> t, streams |-> Mixed], "highest")

NextSanitize == Select

SpecSanitize == InitSanitize /\ [][NextSanitize]_vars

\* the positions of a title that hold none of the nine characters
KeptPositions(title) ==
  {i \in 1..Len(title) :
     title[i] \notin {"<", ">", ":", "\"", "/", "\\", "|", "?", "*"}}
\* the k-th of them, from the left
KthKept(title, k) ==
  CHOOSE i \in KeptPositions(title) :
    Cardinality({j \in KeptPositions(title) : j <= i}) = k

\* C11: the sanitized title is the title without its occurrences of the nine
\* characters < > : " / \ | ? *, every other character kept, in order.
C11_RemovesExactlyTheNine ==
  (yt # None /\ pc \in {"download", "except"} /\ failedAt \in {"none", "select"}) =>
    LET title == The(yt).title
    IN /\ Len(video_title) = Cardinality(KeptPositions(title))
       /\ \A k \in 1..Len(video_title) :
            video_title[k] = title[KthKept(title, k)]
       /\ \A k \in 1..Len(video_title) :
            video_title[k] \notin {"<", ">", ":", "\"", "/", "\\", "|", "?", "*"}

C11_Witness ==
  /\ pc = "download"
  /\ The(yt).title = <<"é", "\\", " ">>
  /\ video_title = <<"é", " ">>

\* C12: no success or error message is printed before the finally block has
\* cleaned up: a call that has printed its terminal message has left the
\* finally block.
C12_CleanupBeforeReport ==
  (InCall /\ msg # "none") => pc = "returned"

C14_SuffixBeforeExtension ==
  audio_path # None =>
    LET p == The(audio_path)
    IN /\ \/ p = video_title \o Mp3
          \/ \E k \in 1..(Cardinality(Exists) + 1) :
               p = video_title \o <<"_">> \o Str(k) \o Mp3
       /\ Len(p) >= Len(Mp3)
       /\ SubSeq(p, Len(p) - Len(Mp3) + 1, Len(p)) = Mp3

\* C15: every unsuccessful attempt k < 3, whether it raised or found an
\* empty title, is followed by a backoff wait of 3 * 2^(k-1) seconds, and
\* the third is followed by none.
C15_BackoffAfterEveryFailure ==
  \A k \in 1..Len(attempts) :
    attempts[k].outcome # "ok" =>
      attempts[k].backoff = (IF k < 3 THEN 3 * 2 ^ (k - 1) ELSE 0)

\* C18: whenever download is about to be called, temp/ exists and was
\* created by the downloader itself.
C18_TempMadeByDownloader ==
  pc = "download" => tempDir = "downloader"

\* the finished audio files of a directory
Finished(dir) == {f \in DOMAIN dir : dir[f].whole}

\* C19: a call that returns None leaves the finished audio files as they
\* were, and a finished audio file is new after a call only when the call
\* returned its path.
C19_FailureLeavesOutputAlone ==
  Returned =>
    /\ result = None => Finished(outFiles) = Finished(out0)
    /\ \A f \in Finished(outFiles) \ Finished(out0) : result = Some(f)

\* ----------------------------------------------------- one call on its own
TwoWatchUrl == <<"https://", "youtube.com", "/", "watch?v=", "id1", "/",
                 "watch?v=", "id2">>
TwoAmpUrl == <<"https://", "youtube.com", "/", "watch?v=", "id1", "&", "t=1",
               "&", "list=2">>
AmpFirstUrl == <<"https://", "youtube.com", "/", "watch?v=", "&", "t=1">>
NoIdUrl == <<"https://", "youtube.com", "/", "watch?v=">>
OneCallUrls == {WatchUrl, WatchUrlAmp, ShortsUrl, OtherHostUrl, NoSchemeUrl,
                NotAUrl, TwoWatchUrl, TwoAmpUrl, AmpFirstUrl, NoIdUrl}
OneCallDirs ==
  InitDirs \cup {{<<"a">> \o Mp3, <<"a", "_", "1">> \o Mp3, <<"a", "_", "2">> \o Mp3}}

\* line 158 of the first loop iteration: the call is entered
InitOneCall ==
  /\ pc = "validate"
  /\ calls = 1
  /\ url \in OneCallUrls
  /\ quality \in {"highest", "lowest"}
  /\ FreshCall
  /\ \E d \in OneCallDirs : outFiles = [f \in d |-> Content(0, TRUE)]
  /\ tempDir = "downloader"
  /\ tempFiles = {}
  /\ out0 = outFiles
  /\ temp0 = {}

\* the steps of download_and_convert, lines 81-144
CallStep ==
  \/ Validate
  \/ Fallback
  \/ AttemptCtorRaises
  \/ AttemptTitleRaises
  \/ AttemptEmptyTitle
  \/ AttemptSucceeds
  \/ ResolveExhausted
  \/ Initialized
  \/ Select
  \/ DownloadSucceeds
  \/ DownloadFails
  \/ OutPath
  \/ TranscodeSucceeds
  \/ TranscodeFails
  \/ UnlinkSucceeds
  \/ UnlinkFails
  \/ Except
  \/ Finally

NextOneCall ==
  \/ CallStep
  \/ Return
  \/ PromptQuit

SpecOneCall == InitOneCall /\ [][NextOneCall]_vars

\* the single thread runs on: a step of the call that can be taken is taken,
\* every collaborator call returning or raising
LiveOneCall == SpecOneCall /\ WF_vars(CallStep)

\* the tokens of a url after its first 'watch?v=', up to the next '&', the
\* next 'watch?v=' or the end
IdText(u) ==
  LET i == CHOOSE j \in 1..Len(u) :
             u[j] = "watch?v=" /\ \A k \in 1..(j - 1) : u[k] # "watch?v="
      stops == {j \in (i + 1)..Len(u) : u[j] \in {"&", "watch?v="}}
      last == IF stops = {} THEN Len(u)
              ELSE (CHOOSE j \in stops : \A k \in stops : j <= k) - 1
  IN SubSeq(u, i + 1, last)

\* a title without its occurrences of the nine characters
KeptText(title) ==
  [k \in 1..Cardinality(KeptPositions(title)) |-> title[KthKept(title, k)]]

PastFallback ==
  InCall /\ pc \notin {"validate", "fallback"} /\ failedAt \notin {"validate", "fallback"}
PastSelect == yt # None /\ pc \notin {"resolved", "select"}

\* C16, as claimed: the fallback title is "video_<id>", and the base filename
\* of a resolved handle is its sanitized title.
C16_FallbackIsVideoId ==
  /\ PastFallback => default_title = <<"video_">> \o IdText(url)
  /\ PastSelect => video_title = KeptText(The(yt).title)

\* C16, amended: the fallback title is "youtube_video_<id>", <id> the text
\* after the first 'watch?v=' up to the next '&', the next 'watch?v=' or the
\* end, and the base filename of a resolved handle is its sanitized title,
\* never the fallback.
C16_FallbackIsYoutubeVideoId ==
  /\ PastFallback => default_title = <<"youtube_video_">> \o IdText(url)
  /\ PastSelect => video_title = KeptText(The(yt).title)

C16_Witness ==
  /\ Returned
  /\ url = TwoAmpUrl
  /\ default_title = <<"youtube_video_", "id1">>
  /\ yt # None
  /\ The(yt).title = <<"a", "?">>
  /\ video_title = <<"a">>
  /\ result = Some(<<"a">> \o Mp3)

\* C17: a url that passes validation and has no 'watch?v=' makes the call
\* fail at the fallback-title step, with no resolve call, no download call,
\* no new output file, and no exception leaving the call.
C17_NoWatchSegmentFailsInside ==
  (/\ pc \notin {"prompt", "quit", "validate", "fallback"}
   /\ ValidSyntax(url)
   /\ HasDomain(url)
   /\ "watch?v=" \notin Range(url))
    => /\ failedAt = "fallback"
       /\ err = "IndexError"
       /\ resolveCalls = 0
       /\ downloadCalls = 0
       /\ outFiles = out0
       /\ result = None
       /\ ~propagating
       /\ pc # "crashed"

C17_Witness ==
  /\ Returned
  /\ url = ShortsUrl
  /\ failedAt = "fallback"
  /\ msg = "error"
  /\ resolveCalls = 0

\* C20: every call that is entered reaches its return.
C20_CallReturns ==
  (pc = "validate") ~> (pc = "returned")

C20_Witness ==
  /\ Returned
  /\ resolveCalls = 3
  /\ result = Some(<<"a", "_", "3">> \o Mp3)

====
